---- MODULE Spec2Model ----
\* Model of userauth/models.py: the model registry, the parameter-grid
\* registry, tune_models and train_and_evaluate, one action per statement
\* group so that the order of the calls and the point of an exception are
\* visible in the state.
EXTENDS Integers, Sequences, FiniteSets, TLC

\* Largest number of entries of the `models` mapping that is explored.
MaxModels == 3

VARIABLES
    models,          \* the caller's `models` dict: sequence of [k |-> name, v |-> instance id]
    param_grids,     \* the caller's `param_grids` dict: function name -> grid
    from_loaded,     \* the from_loaded argument of train_and_evaluate
    heap,            \* classifier instances by id: [cls, fitted]
    pc,              \* position of the single thread of control
    ti,              \* tune_models: index of the current item of models.items()
    best_models,     \* tune_models: local dict
    grid_search,     \* tune_models: local GridSearchCV object
    tuneRet,         \* value returned by tune_models
    teArg,           \* train_and_evaluate: the `models` argument
    ei,              \* train_and_evaluate: index of the current item of models.items()
    results,         \* train_and_evaluate: local dict
    trained_models,  \* train_and_evaluate: local dict
    teRet,           \* value returned by train_and_evaluate
    err,             \* exception propagating to the caller ("none" if none)
    raisedIn,        \* function the exception left ("none" if none)
    heapAtCall,      \* heap as it was when train_and_evaluate was entered
    heapAtTune,      \* heap as it was when tune_models was entered
    log              \* calls made on collaborators, in order

vars == <<models, param_grids, from_loaded, heap, pc, ti, best_models,
          grid_search, tuneRet, teArg, ei, results, trained_models, teRet,
          err, raisedIn, heapAtCall, heapAtTune, log>>

tuneVars == <<ti, best_models, grid_search, tuneRet, heapAtTune>>
evalVars == <<teArg, ei, results, trained_models, teRet, heapAtCall>>
inputVars == <<models, param_grids, from_loaded>>

----------------------------------------------------------------------------
\* Python dicts keep insertion order: a dict is a sequence of [k, v] entries.

Keys(d) == [i \in 1..Len(d) |-> d[i].k]

KeySet(d) == {d[i].k : i \in 1..Len(d)}

HasKey(d, key) == \E i \in 1..Len(d) : d[i].k = key

Get(d, key) == d[CHOOSE i \in 1..Len(d) : d[i].k = key].v

\* d[key] = val: replaces the value of an existing key, else appends.
Put(d, key, val) ==
    IF HasKey(d, key)
    THEN [i \in 1..Len(d) |-> IF d[i].k = key THEN [k |-> key, v |-> val] ELSE d[i]]
    ELSE Append(d, [k |-> key, v |-> val])

None == [kind |-> "None", val |-> <<>>]

Pending == [kind |-> "pending", val |-> <<>>]

DictValue(d) == [kind |-> "dict", val |-> d]

----------------------------------------------------------------------------
\* define_models(): three named, freshly constructed classifiers.
define_models ==
    << [k |-> "Random Forest",
        v |-> [cls |-> "RandomForestClassifier", args |-> << <<"random_state", 1234>> >>]],
       [k |-> "KNN",
        v |-> [cls |-> "KNeighborsClassifier", args |-> << >>]],
       [k |-> "MLP",
        v |-> [cls |-> "MLPClassifier", args |-> << <<"random_state", 1234>> >>]] >>

\* A variant that drops one candidate of the KNN grid.
define_param_grid_short ==
    [n \in {"Random Forest", "KNN", "MLP"} |->
        IF n = "Random Forest" THEN
            << <<"n_estimators", <<10, 50, 100, 200>> >>,
               <<"max_depth", <<5, 10, 20, "None">> >>,
               <<"max_features", <<"sqrt", "log2", "None">> >>,
               <<"min_samples_split", <<2, 5, 10>> >>,
               <<"min_samples_leaf", <<1, 2, 4>> >>,
               <<"bootstrap", <<TRUE, FALSE>> >> >>
        ELSE IF n = "KNN" THEN
            << <<"n_neighbors", <<3, 5, 10, 15>> >>,
               <<"weights", <<"uniform", "distance">> >>,
               <<"algorithm", <<"auto", "ball_tree", "kd_tree", "brute">> >>,
               <<"leaf_size", <<10, 30, 50>> >>,
               <<"p", <<1, 2>> >> >>
        ELSE
            << <<"hidden_layer_sizes", << <<50>>, <<100>>, <<100, 50>>, <<150, 100, 50>> >> >>,
               <<"solver", <<"adam", "sgd", "lbfgs">> >>,
               <<"activation", <<"relu", "tanh", "logistic">> >>,
               <<"alpha", <<"0.0001", "0.001", "0.01", "0.1">> >>,
               <<"learning_rate", <<"constant", "invscaling", "adaptive">> >>,
               <<"max_iter", <<500, 1000, 2000>> >> >>]

\* define_param_grid(): per model name, the ordered list of
\* <<parameter, candidate values>>.
define_param_grid ==
    [n \in {"Random Forest", "KNN", "MLP"} |->
        IF n = "Random Forest" THEN
            << <<"n_estimators", <<10, 50, 100, 200>> >>,
               <<"max_depth", <<5, 10, 20, "None">> >>,
               <<"max_features", <<"sqrt", "log2", "None">> >>,
               <<"min_samples_split", <<2, 5, 10>> >>,
               <<"min_samples_leaf", <<1, 2, 4>> >>,
               <<"bootstrap", <<TRUE, FALSE>> >> >>
        ELSE IF n = "KNN" THEN
            << <<"n_neighbors", <<3, 5, 10, 15, 20>> >>,
               <<"weights", <<"uniform", "distance">> >>,
               <<"algorithm", <<"auto", "ball_tree", "kd_tree", "brute">> >>,
               <<"leaf_size", <<10, 30, 50>> >>,
               <<"p", <<1, 2>> >> >>
        ELSE
            << <<"hidden_layer_sizes", << <<50>>, <<100>>, <<100, 50>>, <<150, 100, 50>> >> >>,
               <<"solver", <<"adam", "sgd", "lbfgs">> >>,
               <<"activation", <<"relu", "tanh", "logistic">> >>,
               <<"alpha", <<"0.0001", "0.001", "0.01", "0.1">> >>,
               <<"learning_rate", <<"constant", "invscaling", "adaptive">> >>,
               <<"max_iter", <<500, 1000, 2000>> >> >>]

RegistryNames == KeySet(define_models)

RECURSIVE GridSizeFrom(_, _)
GridSizeFrom(grid, i) ==
    IF i > Len(grid) THEN 1 ELSE Len(grid[i][2]) * GridSizeFrom(grid, i + 1)

\* Number of candidates the exhaustive search enumerates for a grid: the
\* product of the lengths of the candidate lists.
GridSize(grid) == GridSizeFrom(grid, 1)

----------------------------------------------------------------------------
\* Orderings of distinct registry entries, the `models` mappings explored.
ModelOrders ==
    {s \in UNION {[1..n -> 1..Len(define_models)] : n \in 0..MaxModels} :
        \A i, j \in 1..Len(s) : i # j => s[i] # s[j]}

Event(fn, op, name, inst, exc, n, res) ==
    [fn |-> fn, op |-> op, name |-> name, inst |-> inst, exc |-> exc,
     n |-> n, res |-> res]

Init ==
    /\ \E s \in ModelOrders :
          \E f \in [1..Len(s) -> BOOLEAN] :
             /\ models = [i \in 1..Len(s) |-> [k |-> define_models[s[i]].k, v |-> i]]
             /\ heap = [i \in 1..Len(s) |->
                          [cls |-> define_models[s[i]].v.cls, fitted |-> f[i]]]
    /\ \E ks \in SUBSET DOMAIN define_param_grid :
          param_grids = [n \in ks |-> define_param_grid[n]]
    /\ from_loaded \in BOOLEAN
    /\ pc = "start"
    /\ ti = 0
    /\ best_models = <<>>
    /\ grid_search = [estimator |-> 0, best_estimator_ |-> 0]
    /\ tuneRet = Pending
    /\ teArg = Pending
    /\ ei = 0
    /\ results = <<>>
    /\ trained_models = <<>>
    /\ teRet = Pending
    /\ err = "none"
    /\ raisedIn = "none"
    /\ heapAtCall = <<>>
    /\ heapAtTune = <<>>
    /\ log = <<>>

\* An exception leaves the running function and reaches the caller.
Raise(fn, exc) ==
    /\ pc' = "raised"
    /\ err' = exc
    /\ raisedIn' = fn

NoRaise == UNCHANGED <<err, raisedIn>>

----------------------------------------------------------------------------
\* tune_models

\* Entry: best_models = {}.
TM_Call ==
    /\ pc = "start"
    /\ pc' = "tm_iter"
    /\ ti' = 0
    /\ best_models' = <<>>
    /\ heapAtTune' = heap
    /\ NoRaise
    /\ UNCHANGED <<inputVars, heap, grid_search, tuneRet, evalVars, log>>

\* for name, model in models.items(): if name in param_grids: ... else: ...
\* When the items are exhausted the function body ends: implicit return None.
TM_Iter ==
    /\ pc = "tm_iter"
    /\ IF ti >= Len(models)
       THEN /\ pc' = "tm_returned"
            /\ tuneRet' = None
            /\ UNCHANGED ti
       ELSE /\ ti' = ti + 1
            /\ pc' = IF models[ti + 1].k \in DOMAIN param_grids
                     THEN "tm_tuning" ELSE "tm_passthrough"
            /\ UNCHANGED tuneRet
    /\ NoRaise
    /\ UNCHANGED <<inputVars, heap, best_models, grid_search, heapAtTune, evalVars, log>>

\* print("Tuning ..."); grid_search = GridSearchCV(model, param_grids[name], ...)
TM_Tuning ==
    /\ pc = "tm_tuning"
    /\ grid_search' = [estimator |-> models[ti].v, best_estimator_ |-> 0]
    /\ log' = Append(log, Event("tune", "print_tuning", models[ti].k,
                                models[ti].v, "none", 0, 0))
    /\ pc' = "tm_search"
    /\ NoRaise
    /\ UNCHANGED <<inputVars, heap, ti, best_models, tuneRet, heapAtTune, evalVars>>

\* grid_search.fit(X_train, y_train): the search works on clones of the
\* estimator and refits a new instance with the best configuration; it
\* may raise.
TM_Search ==
    /\ pc = "tm_search"
    /\ \/ /\ heap' = Append(heap, [cls |-> heap[grid_search.estimator].cls,
                                   fitted |-> TRUE])
          /\ grid_search' = [grid_search EXCEPT !.best_estimator_ = Len(heap) + 1]
          /\ log' = Append(log, Event("tune", "GridSearchCV.fit", models[ti].k,
                                      grid_search.estimator, "none",
                                      GridSize(param_grids[models[ti].k]),
                                      Len(heap) + 1))
          /\ pc' = "tm_store"
          /\ NoRaise
       \/ /\ log' = Append(log, Event("tune", "GridSearchCV.fit", models[ti].k,
                                      grid_search.estimator, "ValueError",
                                      GridSize(param_grids[models[ti].k]), 0))
          /\ Raise("tune_models", "ValueError")
          /\ UNCHANGED <<heap, grid_search>>
    /\ UNCHANGED <<inputVars, ti, best_models, tuneRet, heapAtTune, evalVars>>

\* best_models[name] = grid_search.best_estimator_; print best parameters.
TM_StoreBest ==
    /\ pc = "tm_store"
    /\ best_models' = Put(best_models, models[ti].k, grid_search.best_estimator_)
    /\ log' = Append(log, Event("tune", "print_best", models[ti].k,
                                grid_search.best_estimator_, "none", 0, 0))
    /\ pc' = "tm_iter"
    /\ NoRaise
    /\ UNCHANGED <<inputVars, heap, ti, grid_search, tuneRet, heapAtTune, evalVars>>

\* A variant whose return statement is not inside the else branch.
TM_Passthrough_NoReturn ==
    /\ pc = "tm_passthrough"
    /\ best_models' = Put(best_models, models[ti].k, models[ti].v)
    /\ pc' = "tm_iter"
    /\ NoRaise
    /\ UNCHANGED <<inputVars, heap, ti, grid_search, tuneRet, heapAtTune, evalVars, log>>

\* A variant that stores a fitted copy instead of the model passed in.
TM_Passthrough_Copy ==
    /\ pc = "tm_passthrough"
    /\ heap' = Append(heap, [cls |-> heap[models[ti].v].cls, fitted |-> TRUE])
    /\ best_models' = Put(best_models, models[ti].k, Len(heap) + 1)
    /\ tuneRet' = DictValue(best_models')
    /\ pc' = "tm_returned"
    /\ NoRaise
    /\ UNCHANGED <<inputVars, ti, grid_search, heapAtTune, evalVars, log>>

\* else: best_models[name] = model; return best_models
TM_Passthrough ==
    /\ pc = "tm_passthrough"
    /\ best_models' = Put(best_models, models[ti].k, models[ti].v)
    /\ tuneRet' = DictValue(best_models')
    /\ pc' = "tm_returned"
    /\ NoRaise
    /\ UNCHANGED <<inputVars, heap, ti, grid_search, heapAtTune, evalVars, log>>

----------------------------------------------------------------------------
\* train_and_evaluate

EnterEval(arg) ==
    /\ teArg' = arg
    /\ ei' = 0
    /\ results' = <<>>
    /\ trained_models' = <<>>
    /\ heapAtCall' = heap
    /\ pc' = "te_iter"
    /\ NoRaise
    /\ UNCHANGED <<inputVars, heap, tuneVars, teRet, log>>

\* train_and_evaluate(models, ...) on the caller's mapping:
\* results = {}; trained_models = {}.
TE_CallDirect ==
    /\ pc = "start"
    /\ EnterEval(DictValue(models))

\* train_and_evaluate(tune_models(...), ...): the tuner's return value is
\* the `models` argument.
TE_CallTuned ==
    /\ pc = "tm_returned"
    /\ EnterEval(tuneRet)

\* A variant that fits whatever from_loaded says.
TE_Iter_AlwaysFit ==
    /\ pc = "te_iter"
    /\ IF teArg.kind # "dict"
       THEN /\ Raise("train_and_evaluate", "AttributeError")
            /\ UNCHANGED ei
       ELSE IF ei >= Len(teArg.val)
       THEN /\ pc' = "te_return"
            /\ NoRaise
            /\ UNCHANGED ei
       ELSE /\ ei' = ei + 1
            /\ pc' = "te_fit"
            /\ NoRaise
    /\ UNCHANGED <<inputVars, heap, tuneVars, teArg, results, trained_models,
                   teRet, heapAtCall, log>>

\* for name, model in models.items(): if not from_loaded: ...
\* None has no items(): AttributeError.
TE_Iter ==
    /\ pc = "te_iter"
    /\ IF teArg.kind # "dict"
       THEN /\ Raise("train_and_evaluate", "AttributeError")
            /\ UNCHANGED ei
       ELSE IF ei >= Len(teArg.val)
       THEN /\ pc' = "te_return"
            /\ NoRaise
            /\ UNCHANGED ei
       ELSE /\ ei' = ei + 1
            /\ pc' = IF ~from_loaded THEN "te_fit" ELSE "te_trained"
            /\ NoRaise
    /\ UNCHANGED <<inputVars, heap, tuneVars, teArg, results, trained_models,
                   teRet, heapAtCall, log>>

name == teArg.val[ei].k

model == teArg.val[ei].v

\* One call, of a method of instance `target` or of a library function
\* (target 0): it returns and control moves on, or it raises one of its
\* exceptions, which is not caught.
Call(op, target, next, excs) ==
    \/ /\ log' = Append(log, Event("eval", op, name, target, "none", 0, 0))
       /\ pc' = next
       /\ NoRaise
    \/ \E e \in excs :
          /\ log' = Append(log, Event("eval", op, name, target, e, 0, 0))
          /\ Raise("train_and_evaluate", e)

\* A variant that fits a copy, leaving the instance passed in as it was.
TE_Fit_OnCopy ==
    /\ pc = "te_fit"
    /\ Call("fit", model, "te_trained", {"ValueError"})
    /\ heap' = IF pc' = "te_trained"
               THEN Append(heap, [cls |-> heap[model].cls, fitted |-> TRUE])
               ELSE heap
    /\ UNCHANGED <<inputVars, tuneVars, evalVars>>

\* model.fit(X_train, y_train): fits the instance in place; a fit that
\* raises may or may not have set the fitted attributes already.
TE_Fit ==
    /\ pc = "te_fit"
    /\ Call("fit", model, "te_trained", {"ValueError"})
    /\ IF pc' = "te_trained"
       THEN heap' = [heap EXCEPT ![model].fitted = TRUE]
       ELSE \E b \in {heap[model].fitted, TRUE} :
               heap' = [heap EXCEPT ![model].fitted = b]
    /\ UNCHANGED <<inputVars, tuneVars, evalVars>>

\* trained_models[name] = model
TE_Trained ==
    /\ pc = "te_trained"
    /\ trained_models' = Put(trained_models, name, model)
    /\ pc' = "te_predict"
    /\ NoRaise
    /\ UNCHANGED <<inputVars, heap, tuneVars, teArg, ei, results, teRet,
                   heapAtCall, log>>

\* y_pred = model.predict(X_test)
TE_Predict ==
    /\ pc = "te_predict"
    /\ Call("predict", model, "te_accuracy", {"NotFittedError", "ValueError"})
    /\ UNCHANGED <<inputVars, heap, tuneVars, evalVars>>

Value(fn, of) == [fn |-> fn, of |-> of]

\* A variant that goes from the accuracy straight to predict_proba.
TE_Accuracy_SkipReport ==
    /\ pc = "te_accuracy"
    /\ Call("accuracy_score", 0, "te_proba", {"ValueError"})
    /\ results' = IF pc' = "te_proba"
                  THEN Put(results, name,
                           << [k |-> "accuracy", v |-> Value("accuracy_score", model)] >>)
                  ELSE results
    /\ UNCHANGED <<inputVars, heap, tuneVars, teArg, ei, trained_models, teRet,
                   heapAtCall>>

\* acc = accuracy_score(y_test, y_pred); results[name] = {"accuracy": acc}
TE_Accuracy ==
    /\ pc = "te_accuracy"
    /\ Call("accuracy_score", 0, "te_report", {"ValueError"})
    /\ results' = IF pc' = "te_report"
                  THEN Put(results, name,
                           << [k |-> "accuracy", v |-> Value("accuracy_score", model)] >>)
                  ELSE results
    /\ UNCHANGED <<inputVars, heap, tuneVars, teArg, ei, trained_models, teRet,
                   heapAtCall>>

\* print(f"--- {name} ---"); print(classification_report(y_test, y_pred))
TE_Report ==
    /\ pc = "te_report"
    /\ Call("classification_report", 0, "te_proba", {"ValueError"})
    /\ UNCHANGED <<inputVars, heap, tuneVars, evalVars>>

\* A variant that catches the exception and goes on with the next model.
TE_Proba_Swallow ==
    /\ pc = "te_proba"
    /\ \/ /\ log' = Append(log, Event("eval", "predict_proba", name, model, "none", 0, 0))
          /\ pc' = "te_roc"
          /\ NoRaise
       \/ \E e \in {"AttributeError", "ValueError"} :
             /\ log' = Append(log, Event("eval", "predict_proba", name, model, e, 0, 0))
             /\ pc' = "te_iter"
             /\ NoRaise
    /\ UNCHANGED <<inputVars, heap, tuneVars, evalVars>>

\* y_scores = model.predict_proba(X_test)[:, 1]
TE_Proba ==
    /\ pc = "te_proba"
    /\ Call("predict_proba", model, "te_roc", {"AttributeError", "ValueError"})
    /\ UNCHANGED <<inputVars, heap, tuneVars, evalVars>>

\* fpr, tpr, auc = custom_roc_auc(y_test, y_scores)
TE_Roc ==
    /\ pc = "te_roc"
    /\ Call("custom_roc_auc", 0, "te_curve", {"ValueError"})
    /\ UNCHANGED <<inputVars, heap, tuneVars, evalVars>>

\* A variant that forgets the auc field.
TE_Curve_NoAuc ==
    /\ pc = "te_curve"
    /\ results' = Put(results, name,
                      Put(Put(Get(results, name),
                              "fpr", Value("custom_roc_auc.fpr", model)),
                          "tpr", Value("custom_roc_auc.tpr", model)))
    /\ pc' = "te_iter"
    /\ NoRaise
    /\ UNCHANGED <<inputVars, heap, tuneVars, teArg, ei, trained_models, teRet,
                   heapAtCall, log>>

\* results[name]["fpr"] = fpr; results[name]["tpr"] = tpr; results[name]["auc"] = auc
TE_Curve ==
    /\ pc = "te_curve"
    /\ results' = Put(results, name,
                      Put(Put(Put(Get(results, name),
                                  "fpr", Value("custom_roc_auc.fpr", model)),
                              "tpr", Value("custom_roc_auc.tpr", model)),
                          "auc", Value("custom_roc_auc.auc", model)))
    /\ pc' = "te_iter"
    /\ NoRaise
    /\ UNCHANGED <<inputVars, heap, tuneVars, teArg, ei, trained_models, teRet,
                   heapAtCall, log>>

\* return results, trained_models
TE_Return ==
    /\ pc = "te_return"
    /\ teRet' = DictValue(<< [k |-> "results", v |-> results],
                             [k |-> "trained_models", v |-> trained_models] >>)
    /\ pc' = "te_returned"
    /\ NoRaise
    /\ UNCHANGED <<inputVars, heap, tuneVars, teArg, ei, results, trained_models,
                   heapAtCall, log>>

----------------------------------------------------------------------------
Next ==
    \/ TM_Call
    \/ TM_Iter
    \/ TM_Tuning
    \/ TM_Search
    \/ TM_StoreBest
    \/ TM_Passthrough
    \/ TE_CallDirect
    \/ TE_CallTuned
    \/ TE_Iter
    \/ TE_Fit
    \/ TE_Trained
    \/ TE_Predict
    \/ TE_Accuracy
    \/ TE_Report
    \/ TE_Proba
    \/ TE_Roc
    \/ TE_Curve
    \/ TE_Return

Spec == Init /\ [][Next]_vars

----------------------------------------------------------------------------
\* Properties

EvalLog == SelectSeq(log, LAMBDA e : e.fn = "eval")

TuneLog == SelectSeq(log, LAMBDA e : e.fn = "tune")

Searches == {i \in 1..Len(log) : log[i].op = "GridSearchCV.fit"}

\* Position in `models` of the first model without a grid, 0 if there is none.
FirstMissing ==
    IF \E i \in 1..Len(models) : models[i].k \notin DOMAIN param_grids
    THEN CHOOSE i \in 1..Len(models) :
            /\ models[i].k \notin DOMAIN param_grids
            /\ \A j \in 1..(i - 1) : models[j].k \in DOMAIN param_grids
    ELSE 0

PositionOf(d, key) == CHOOSE i \in 1..Len(d) : d[i].k = key

TuneReturned == tuneRet.kind # "pending"

\* C1: whatever `models` and `param_grids` are, tune_models returns a
\* mapping with exactly the keys of `models`; a name with a grid maps to
\* the best estimator of its search, a name without one to the original
\* model.
C1_TuneReturnsEveryModel ==
    TuneReturned =>
        /\ tuneRet.kind = "dict"
        /\ KeySet(tuneRet.val) = KeySet(models)
        /\ \A i \in 1..Len(tuneRet.val) :
              LET n == tuneRet.val[i].k
                  m == tuneRet.val[i].v
              IN IF n \in DOMAIN param_grids
                 THEN \E j \in Searches :
                         /\ log[j].name = n
                         /\ log[j].exc = "none"
                         /\ log[j].res = m
                 ELSE m = Get(models, n)

FromRegistries ==
    /\ Keys(models) = Keys(define_models)
    /\ param_grids = define_param_grid

EvalOfTuned == TuneReturned /\ teArg.kind # "pending"

\* C2: with the outputs of define_models() and define_param_grid(),
\* tune_models returns a mapping with one tuned model per registry name,
\* train_and_evaluate iterates over that return value, and when it returns
\* it has a result for each of the tuned models.
C2_RegistryPipeline ==
    FromRegistries =>
        /\ TuneReturned =>
              /\ tuneRet.kind = "dict"
              /\ KeySet(tuneRet.val) = RegistryNames
        /\ EvalOfTuned => ~(pc = "raised" /\ ei = 0)
        /\ (EvalOfTuned /\ pc = "te_returned") => KeySet(results) = RegistryNames

InEval == teArg.kind = "dict"

EvalInstances == {teArg.val[i].v : i \in 1..Len(teArg.val)}

\* C4: with from_loaded = true, train_and_evaluate calls fit on no model:
\* every model keeps the fitted state it had at the call, and the only
\* methods invoked on a model are predict and predict_proba.
C4_FromLoadedNeverFits ==
    (from_loaded /\ InEval) =>
        /\ \A i \in 1..Len(EvalLog) : EvalLog[i].op # "fit"
        /\ \A m \in EvalInstances : heap[m] = heapAtCall[m]
        /\ \A i \in 1..Len(EvalLog) :
              EvalLog[i].inst \in EvalInstances =>
                  EvalLog[i].op \in {"predict", "predict_proba"}

\* Two loaded (fitted) and one unfitted model evaluated to the end.
C4_Witness ==
    /\ from_loaded
    /\ InEval
    /\ pc = "te_returned"
    /\ Len(teArg.val) = 3
    /\ \E m \in EvalInstances : ~heap[m].fitted
    /\ \E m \in EvalInstances : heap[m].fitted
    /\ Len(EvalLog) = 15

ResultFields == {"accuracy", "fpr", "tpr", "auc"}

\* C5: when train_and_evaluate returns, results and trained_models have
\* the keys of `models`, every record of results has exactly the fields
\* accuracy, fpr, tpr and auc, and trained_models[name] is the instance
\* models[name], whatever from_loaded is.
C5_ReturnShape ==
    pc = "te_returned" =>
        LET res == Get(teRet.val, "results")
            trn == Get(teRet.val, "trained_models")
        IN /\ teRet.kind = "dict"
           /\ Keys(teRet.val) = <<"results", "trained_models">>
           /\ Keys(res) = Keys(teArg.val)
           /\ Keys(trn) = Keys(teArg.val)
           /\ \A i \in 1..Len(res) :
                 /\ KeySet(res[i].v) = ResultFields
                 /\ Len(res[i].v) = Cardinality(ResultFields)
           /\ \A i \in 1..Len(trn) : trn[i].v = teArg.val[i].v

\* Three models fitted and evaluated to the end.
C5_Witness ==
    /\ pc = "te_returned"
    /\ ~from_loaded
    /\ Len(teArg.val) = 3
    /\ Len(results) = 3
    /\ Len(trained_models) = 3

ClaimedGridSize == [n \in RegistryNames |->
    IF n = "Random Forest" THEN 864 ELSE IF n = "KNN" THEN 240 ELSE 3888]

ActualGridSize == [n \in RegistryNames |->
    IF n = "Random Forest" THEN 864 ELSE IF n = "KNN" THEN 240 ELSE 1296]

\* C6 as stated: the grids of define_param_grid have 864 ("Random
\* Forest"), 240 ("KNN") and 3888 ("MLP") combinations.
C6_GridSizesAsStated ==
    \A n \in DOMAIN param_grids : GridSize(param_grids[n]) = ClaimedGridSize[n]

\* C6: the grids of define_param_grid have 864 ("Random Forest"), 240
\* ("KNN") and 1296 ("MLP") combinations, and a search enumerates that
\* many candidates.
C6_GridSizes ==
    /\ \A n \in DOMAIN param_grids : GridSize(param_grids[n]) = ActualGridSize[n]
    /\ \A j \in Searches : log[j].n = ActualGridSize[log[j].name]

\* All three grids in use and a search run for each of them.
C6_Witness ==
    /\ DOMAIN param_grids = RegistryNames
    /\ {log[j].name : j \in Searches} = RegistryNames
    /\ \E j \in Searches : log[j].name = "MLP" /\ log[j].n = 1296

\* C7: a model stored through the no-grid branch is the instance that was
\* passed in, no search was run for it and it was not fitted; in
\* particular tune_models({"KNN": m}, {}) returns {"KNN": m}.
C7_PassthroughIdentity ==
    pc = "tm_returned" =>
        \A i \in 1..Len(best_models) :
            best_models[i].k \notin DOMAIN param_grids =>
                /\ best_models[i].v = Get(models, best_models[i].k)
                /\ heap[best_models[i].v] = heapAtTune[best_models[i].v]
                /\ \A j \in 1..Len(log) : log[j].name # best_models[i].k
                /\ tuneRet = DictValue(best_models)

\* tune_models({"KNN": m}, {}) has returned {"KNN": m}, m untrained.
C7_Witness ==
    /\ pc = "tm_returned"
    /\ Keys(models) = <<"KNN">>
    /\ DOMAIN param_grids = {}
    /\ tuneRet = DictValue(<< [k |-> "KNN", v |-> models[1].v] >>)
    /\ ~heap[models[1].v].fitted

\* C8: when a call made by train_and_evaluate raises, the function stops
\* there: the exception is the one the caller sees, nothing is returned,
\* no call follows the failed one, and no later model is fitted or
\* evaluated.
C8_HaltOnFirstError ==
    \A i \in 1..Len(EvalLog) :
        EvalLog[i].exc # "none" =>
            /\ i = Len(EvalLog)
            /\ pc = "raised"
            /\ raisedIn = "train_and_evaluate"
            /\ err = EvalLog[i].exc
            /\ teRet = Pending
            /\ EvalLog[i].name = teArg.val[ei].k
            /\ \A j \in (ei + 1)..Len(teArg.val) :
                  /\ heap[teArg.val[j].v] = heapAtCall[teArg.val[j].v]
                  /\ \A l \in 1..Len(EvalLog) : EvalLog[l].name # teArg.val[j].k

\* predict_proba of the second of three models raised after the first
\* model was completed.
C8_Witness ==
    /\ pc = "raised"
    /\ InEval
    /\ Len(teArg.val) = 3
    /\ ei = 2
    /\ Len(results[1].v) = 4
    /\ EvalLog[Len(EvalLog)].op = "predict_proba"
    /\ err = "AttributeError"

StepsPerModel ==
    (IF from_loaded THEN <<>> ELSE <<"fit">>)
        \o <<"predict", "accuracy_score", "classification_report",
             "predict_proba", "custom_roc_auc">>

\* The calls of a complete run of train_and_evaluate, in order.
ExpectedCalls ==
    [j \in 1..(Len(teArg.val) * Len(StepsPerModel)) |->
        [op |-> StepsPerModel[((j - 1) % Len(StepsPerModel)) + 1],
         name |-> teArg.val[((j - 1) \div Len(StepsPerModel)) + 1].k]]

\* C9: train_and_evaluate handles the models one after another in mapping
\* order, and for each model calls fit (only when from_loaded is false),
\* predict, accuracy_score, the report, predict_proba and the ROC/AUC
\* helper in this order, each once: the calls made so far are a prefix of
\* that sequence.
C9_CallOrder ==
    InEval =>
        /\ Len(EvalLog) <= Len(ExpectedCalls)
        /\ \A j \in 1..Len(EvalLog) :
              /\ EvalLog[j].op = ExpectedCalls[j].op
              /\ EvalLog[j].name = ExpectedCalls[j].name
        /\ \A j \in 1..Len(EvalLog) :
              EvalLog[j].inst # 0 => EvalLog[j].inst = Get(teArg.val, EvalLog[j].name)

\* Three models fitted and evaluated: eighteen calls.
C9_Witness ==
    /\ InEval
    /\ ~from_loaded
    /\ pc = "te_returned"
    /\ Len(teArg.val) = 3
    /\ Len(EvalLog) = 18

OkCall(op, n) ==
    \E i \in 1..Len(EvalLog) :
        /\ EvalLog[i].op = op
        /\ EvalLog[i].name = n
        /\ EvalLog[i].exc = "none"

FailedLate ==
    /\ ~from_loaded
    /\ InEval
    /\ pc = "raised"
    /\ ei > 0
    /\ EvalLog[Len(EvalLog)].op \in {"predict_proba", "custom_roc_auc"}

====
